---- MODULE Spec2Model ----
(***************************************************************************)
(* Model of the recommendation server (server/index.js) and of the catalog *)
(* of src/components/AIProductRecommender.jsx.                             *)
(*                                                                         *)
(* Texts handled by extractJSONFromText are sequences of lexical pieces:   *)
(*   "F"  a triple-backtick fence          "J"  the word json              *)
(*   "W"  one blank                        "X"  a word of prose            *)
(*   "T"  the literal true                 "Z"  the literal null           *)
(*   "{" "}" "[" "]" ","  the JSON punctuation                             *)
(*   "Q"  a double quote                   "KEY" a member name and colon   *)
(*   "R1" the member "recommended_ids":["p1"]                              *)
(*   "R2" the member "recommended_ids":["p2"]                              *)
(*   "RS" the member "recommended_ids":"p1"                                *)
(*   "r1" "r2" "rs" the same members with their quotes backslash-escaped,  *)
(*        as they stand inside a string of a serialized reply.             *)
(***************************************************************************)
EXTENDS Integers, Sequences, FiniteSets, TLC

VARIABLES
    conf,            \* which of SERPAPI_KEY and GEMINI_KEY the environment sets
    pc,              \* position of the /api/recommend handler
    req,             \* req.body: query and products
    searchCall,      \* the fetch of webSearch and the timer racing it
    geminiCall,      \* the fetch of askGemini and the timer racing it
    web,             \* what webSearch returned
    snippets,        \* the snippets built from web
    gem,             \* what askGemini returned
    textCandidates,  \* the text fragments collected from gem
    parsed,          \* the value the extraction loop ended with
    responses,       \* every response sent on res, in order
    fetches,         \* number of fetches issued to each provider
    xtext,           \* extractor harness: the text built so far
    xcount,          \* extractor harness: number of pieces appended
    xphase,          \* extractor harness: "input" or "done"
    xres             \* extractor harness: value returned by extractJSONFromText

hvars == <<conf, pc, req, searchCall, geminiCall, web, snippets, gem,
           textCandidates, parsed, responses, fetches>>
xvars == <<xtext, xcount, xphase, xres>>
vars == <<hvars, xvars>>

\* Largest number of pieces a text of the extractor harness is built from.
MaxPieces == 4

(***************************************************************************)
(* JSON values, as far as the server looks at them: the type of the value  *)
(* and, for an object, its recommended_ids member.                         *)
(***************************************************************************)
NoIds == [kind |-> "absent", items |-> <<>>]
ArrayIds(items) == [kind |-> "array", items |-> items]
StringIds == [kind |-> "string", items |-> <<>>]

JNull == [type |-> "null", rid |-> NoIds]
JTrue == [type |-> "true", rid |-> NoIds]
JString(nonempty) == [type |-> IF nonempty THEN "string" ELSE "emptystring", rid |-> NoIds]
JArray == [type |-> "array", rid |-> NoIds]
JObject(rid) == [type |-> "object", rid |-> rid]
\* The exception JSON.parse throws.
SyntaxError == [type |-> "SyntaxError", rid |-> NoIds]

\* JavaScript truthiness of a parsed value.
Truthy(v) == v.type \in {"true", "string", "array", "object"}

\* Array.isArray(parsed.recommended_ids)
IsArrayIds(v) == v.type = "object" /\ v.rid.kind = "array"

Min(a, b) == IF a < b THEN a ELSE b

\* First index >= i of s that holds no blank (Len(s)+1 when there is none).
RECURSIVE SkipWs(_, _)
SkipWs(s, i) ==
    IF i > Len(s) THEN Len(s) + 1
    ELSE IF s[i] = "W" THEN SkipWs(s, i + 1) ELSE i

\* First index >= i of s holding piece c (0 when there is none).
RECURSIVE IndexFrom(_, _, _)
IndexFrom(s, c, i) ==
    IF i > Len(s) THEN 0
    ELSE IF s[i] = c THEN i ELSE IndexFrom(s, c, i + 1)

\* Last index <= i of s holding piece c (0 when there is none).
RECURSIVE LastIndexFrom(_, _, _)
LastIndexFrom(s, c, i) ==
    IF i < 1 THEN 0
    ELSE IF s[i] = c THEN i ELSE LastIndexFrom(s, c, i - 1)

ParseFail == [ok |-> FALSE, next |-> 0, val |-> SyntaxError]
ParseOk(next, val) == [ok |-> TRUE, next |-> next, val |-> val]

MemberIds(c) ==
    CASE c = "R1" -> ArrayIds(<<"p1">>)
      [] c = "R2" -> ArrayIds(<<"p2">>)
      [] c = "RS" -> StringIds

(***************************************************************************)
(* JSON.parse: a recursive-descent parser of the JSON grammar over the     *)
(* pieces. ParseValue reads one value starting at index i and gives the    *)
(* index behind it.                                                        *)
(***************************************************************************)
RECURSIVE ParseValue(_, _), ParseMembers(_, _, _, _), ParseElements(_, _, _)

\* A string that opens at j and closes at the next quote k (0: none).
ParseString(j, k) == IF k = 0 THEN ParseFail ELSE ParseOk(k + 1, JString(k > j + 1))

ValueAt(s, j) ==
    IF j > Len(s) THEN ParseFail
    ELSE CASE s[j] = "T" -> ParseOk(j + 1, JTrue)
           [] s[j] = "Z" -> ParseOk(j + 1, JNull)
           [] s[j] = "Q" -> ParseString(j, IndexFrom(s, "Q", j + 1))
           [] s[j] = "[" -> ParseElements(s, j + 1, TRUE)
           [] s[j] = "{" -> ParseMembers(s, j + 1, TRUE, NoIds)
           [] OTHER -> ParseFail

ParseValue(s, i) == ValueAt(s, SkipWs(s, i))

\* Behind a member of an object, at index k: "}" ends it, "," goes on.
AfterMember(s, k, rid) ==
    IF k > Len(s) THEN ParseFail
    ELSE IF s[k] = "}" THEN ParseOk(k + 1, JObject(rid))
    ELSE IF s[k] = "," THEN ParseMembers(s, k + 1, FALSE, rid)
    ELSE ParseFail

\* Behind the value m of a member.
AfterMemberValue(s, m, rid) ==
    IF ~m.ok THEN ParseFail ELSE AfterMember(s, SkipWs(s, m.next), rid)

MembersAt(s, j, first, rid) ==
    IF j > Len(s) THEN ParseFail
    ELSE IF s[j] = "}" THEN (IF first THEN ParseOk(j + 1, JObject(rid)) ELSE ParseFail)
    ELSE IF s[j] \in {"R1", "R2", "RS"} THEN AfterMember(s, SkipWs(s, j + 1), MemberIds(s[j]))
    ELSE IF s[j] = "KEY" THEN AfterMemberValue(s, ParseValue(s, j + 1), rid)
    ELSE ParseFail

\* The members of an object, after its "{" (first) or after a ",".
ParseMembers(s, i, first, rid) == MembersAt(s, SkipWs(s, i), first, rid)

\* Behind an element of an array, at index k: "]" ends it, "," goes on.
AfterElement(s, k) ==
    IF k > Len(s) THEN ParseFail
    ELSE IF s[k] = "]" THEN ParseOk(k + 1, JArray)
    ELSE IF s[k] = "," THEN ParseElements(s, k + 1, FALSE)
    ELSE ParseFail

AfterElementValue(s, m) ==
    IF ~m.ok THEN ParseFail ELSE AfterElement(s, SkipWs(s, m.next))

ElementsAt(s, j, first) ==
    IF j > Len(s) THEN ParseFail
    ELSE IF s[j] = "]" THEN (IF first THEN ParseOk(j + 1, JArray) ELSE ParseFail)
    ELSE AfterElementValue(s, ParseValue(s, j))

\* The elements of an array, after its "[" (first) or after a ",".
ParseElements(s, i, first) == ElementsAt(s, SkipWs(s, i), first)

\* The whole of s must be one value.
WholeValue(s, r) ==
    IF r.ok /\ SkipWs(s, r.next) > Len(s) THEN r.val ELSE SyntaxError

\* JSON.parse(s): the value, or SyntaxError when s is not exactly one value.
JSONparse(s) == WholeValue(s, ParseValue(s, 1))

Slice(s, a, b) == IF a > b THEN <<>> ELSE SubSeq(s, a, b)

(***************************************************************************)
(* extractJSONFromText, step 1: the loop over the matches of               *)
(*   /```(?:json)?\s*([\s\S]*?)```/ig                                      *)
(* FencedMatch gives, for a search starting at index from, the opening     *)
(* fence, the start of the captured group and the closing fence of the     *)
(* next match (open = 0 when there is none).                               *)
(***************************************************************************)
NoMatch == [open |-> 0, body |-> 0, close |-> 0]

\* A match that opens at open and closes at the next fence, close.
MatchBetween(text, open, close) ==
    IF close = 0 THEN NoMatch
    ELSE [open |-> open,
          body |-> SkipWs(text, IF text[open + 1] = "J" THEN open + 2 ELSE open + 1),
          close |-> close]

\* MatchFrom with a pattern that lets the end of the text close a block.
MatchFromOpenEnded(text, open) ==
    IF open = 0 THEN NoMatch
    ELSE [open |-> open,
          body |-> SkipWs(text, IF open + 1 <= Len(text) /\ text[open + 1] = "J"
                                THEN open + 2 ELSE open + 1),
          close |-> IF IndexFrom(text, "F", open + 1) = 0 THEN Len(text) + 1
                    ELSE IndexFrom(text, "F", open + 1)]

MatchFrom(text, open) ==
    IF open = 0 THEN NoMatch ELSE MatchBetween(text, open, IndexFrom(text, "F", open + 1))

FencedMatch(text, from) == MatchFrom(text, IndexFrom(text, "F", from))

\* String.prototype.trim
RECURSIVE Trim(_)
Trim(s) ==
    IF s = <<>> THEN s
    ELSE IF Head(s) = "W" THEN Trim(Tail(s))
    ELSE IF s[Len(s)] = "W" THEN Trim(SubSeq(s, 1, Len(s) - 1))
    ELSE s

\* m[1].trim()
FencedCandidate(text, m) == Trim(Slice(text, m.body, m.close - 1))

NotFound == [found |-> FALSE, val |-> JNull]
Found(v) == [found |-> TRUE, val |-> v]

\* The while loop of step 1: the value of the first match that parses
\* (found), or found FALSE when the matches are exhausted.
RECURSIVE FencedScan(_, _)

\* try { return JSON.parse(candidate) } catch { continue }
FencedTry(text, m, v) ==
    IF v # SyntaxError THEN Found(v) ELSE FencedScan(text, m.close + 1)

FencedStep(text, m) ==
    IF m.open = 0 THEN NotFound
    ELSE FencedTry(text, m, JSONparse(FencedCandidate(text, m)))

FencedScan(text, from) == FencedStep(text, FencedMatch(text, from))

(***************************************************************************)
(* extractJSONFromText, step 2: the brace scan. BraceInner runs the inner  *)
(* loop (j downwards from lastBrace), BraceOuter the outer one (i upwards  *)
(* from firstBrace).                                                       *)
(***************************************************************************)
RECURSIVE BraceInner(_, _, _)

BraceInnerTry(text, i, j, v) ==
    IF v # SyntaxError THEN Found(v) ELSE BraceInner(text, i, j - 1)

BraceInner(text, i, j) ==
    IF j <= i THEN NotFound
    ELSE IF text[j] # "}" THEN BraceInner(text, i, j - 1)
    ELSE BraceInnerTry(text, i, j, JSONparse(SubSeq(text, i, j)))

RECURSIVE BraceOuter(_, _, _)

BraceOuterTry(text, i, lastBrace, r) ==
    IF r.found THEN r ELSE BraceOuter(text, i + 1, lastBrace)

BraceOuter(text, i, lastBrace) ==
    IF i >= lastBrace THEN NotFound
    ELSE IF text[i] # "{" THEN BraceOuter(text, i + 1, lastBrace)
    ELSE BraceOuterTry(text, i, lastBrace, BraceInner(text, i, lastBrace))

\* The parse of text.slice(firstBrace, lastBrace + 1), then the two loops.
BraceWhole(text, firstBrace, lastBrace, v) ==
    IF v # SyntaxError THEN Found(v) ELSE BraceOuter(text, firstBrace, lastBrace)

BraceBetween(text, firstBrace, lastBrace) ==
    IF firstBrace # 0 /\ lastBrace # 0 /\ lastBrace > firstBrace
    THEN BraceWhole(text, firstBrace, lastBrace, JSONparse(SubSeq(text, firstBrace, lastBrace)))
    ELSE NotFound

BraceScan(text) ==
    BraceBetween(text, IndexFrom(text, "{", 1), LastIndexFrom(text, "}", Len(text)))

\* The value returned once a scan has ended: null when it found nothing.
ScanValue(b) == IF b.found THEN b.val ELSE JNull

AfterFenced(text, f) == IF f.found THEN f.val ELSE ScanValue(BraceScan(text))

\* extractJSONFromText with its two steps swapped: the brace scan first.
BraceFirst(text, b) == IF b.found THEN b.val ELSE ScanValue(FencedScan(text, 1))

extractBraceScanFirst(text) ==
    IF text = <<>> THEN JNull ELSE BraceFirst(text, BraceScan(text))

\* extractJSONFromText(text), text a string. The empty string is falsy.
extractJSONFromText(text) ==
    IF text = <<>> THEN JNull ELSE AfterFenced(text, FencedScan(text, 1))

(***************************************************************************)
(* Strings of the fallback heuristic are sequences of one-character        *)
(* strings, so that toLowerCase, split, match and includes are computed    *)
(* character by character.                                                 *)
(***************************************************************************)
\* The catalog the presentation layer sends with every request.
PRODUCTS == <<
    [id |-> "p1", name |-> <<"P", "o", "c", "k", "e", "t", "P", "h", "o", "n", "e", " ", "A", "1">>,
     price |-> 299, category |-> <<"p", "h", "o", "n", "e">>,
     features |-> << <<"5", ".", "5", "i", "n">>,
                   <<"6", "4", "G", "B">>,
                   <<"d", "u", "a", "l", "-", "s", "i", "m">> >>],
    [id |-> "p2", name |-> <<"P", "o", "c", "k", "e", "t", "P", "h", "o", "n", "e", " ", "P", "r", "o">>,
     price |-> 549, category |-> <<"p", "h", "o", "n", "e">>,
     features |-> << <<"6", ".", "2", "i", "n">>,
                   <<"1", "2", "8", "G", "B">>,
                   <<"f", "a", "s", "t", "-", "c", "h", "a", "r", "g", "e">> >>],
    [id |-> "p3", name |-> <<"B", "u", "d", "g", "e", "t", "P", "h", "o", "n", "e", " ", "B", "2">>,
     price |-> 199, category |-> <<"p", "h", "o", "n", "e">>,
     features |-> << <<"5", ".", "0", "i", "n">>,
                   <<"3", "2", "G", "B">> >>],
    [id |-> "p4", name |-> <<"C", "a", "m", "e", "r", "a", "Z", "o", "o", "m", " ", "X">>,
     price |-> 699, category |-> <<"c", "a", "m", "e", "r", "a">>,
     features |-> << <<"5", "0", "M", "P">>,
                   <<"o", "p", "t", "i", "c", "a", "l", "-", "z", "o", "o", "m">> >>],
    [id |-> "p5", name |-> <<"W", "o", "r", "k", "T", "a", "b", "l", "e", "t", " ", "T", "1">>,
     price |-> 429, category |-> <<"t", "a", "b", "l", "e", "t">>,
     features |-> << <<"1", "0", "i", "n">>,
                   <<"6", "4", "G", "B">> >>],
    [id |-> "p6", name |-> <<"L", "i", "f", "e", "s", "t", "y", "l", "e", " ", "E", "a", "r", "b", "u", "d", "s">>,
     price |-> 89, category |-> <<"a", "u", "d", "i", "o">>,
     features |-> << <<"n", "o", "i", "s", "e", "-", "c", "a", "n", "c", "e", "l">>,
                   <<"b", "l", "u", "e", "t", "o", "o", "t", "h", " ", "5", ".", "2">> >>] >>

QueryPhone == <<"I", " ", "w", "a", "n", "t", " ", "a", " ", "p", "h", "o", "n", "e", " ", "u", "n", "d", "e", "r", " ", "$", "5", "0", "0">>

QueryEarbuds == <<"E", "a", "r", "b", "u", "d", "s", " ", "<", "1", "0", "0">>

QueryTablet == <<"T", "A", "B", "L", "E", "T">>

UpperCase == <<"A", "B", "C", "D", "E", "F", "G", "H", "I", "J", "K", "L", "M", "N", "O", "P", "Q", "R", "S", "T", "U", "V", "W", "X", "Y", "Z">>

LowerCase == <<"a", "b", "c", "d", "e", "f", "g", "h", "i", "j", "k", "l", "m", "n", "o", "p", "q", "r", "s", "t", "u", "v", "w", "x", "y", "z">>

Digits == <<"0", "1", "2", "3", "4", "5", "6", "7", "8", "9">>

\* Index of c in the sequence s (0 when absent).
PosIn(s, c) == IndexFrom(s, c, 1)

\* String.prototype.toLowerCase
ToLowerCase(s) ==
    [i \in 1..Len(s) |->
        IF PosIn(UpperCase, s[i]) # 0 THEN LowerCase[PosIn(UpperCase, s[i])] ELSE s[i]]

IsDigit(c) == PosIn(Digits, c) # 0

\* Number(digits) of a string of decimal digits.
RECURSIVE NumberOf(_)
NumberOf(ds) ==
    IF ds = <<>> THEN 0
    ELSE 10 * NumberOf(SubSeq(ds, 1, Len(ds) - 1)) + (PosIn(Digits, ds[Len(ds)]) - 1)

\* hay.includes(needle)
Includes(hay, needle) ==
    \E i \in 0..(Len(hay) - Len(needle)) :
        \A k \in 1..Len(needle) : hay[i + k] = needle[k]

\* Whether s holds the word w at index i.
WordAt(s, i, w) ==
    /\ i + Len(w) - 1 <= Len(s)
    /\ \A k \in 1..Len(w) : s[i + k - 1] = w[k]

\* First index >= i of s that holds no blank.
RECURSIVE SkipBlanks(_, _)
SkipBlanks(s, i) ==
    IF i > Len(s) THEN Len(s) + 1
    ELSE IF s[i] = " " THEN SkipBlanks(s, i + 1) ELSE i

\* The digits matched by \d{1,6} at index i: at most six, greedily.
RECURSIVE DigitRun(_, _, _)
DigitRun(s, i, n) ==
    IF n = 0 \/ i > Len(s) \/ ~IsDigit(s[i]) THEN <<>>
    ELSE <<s[i]>> \o DigitRun(s, i + 1, n - 1)

\* Longest run of digits the price pattern captures.
MaxPriceDigits == 6

\* Length of the alternative of (under|below|<) found at index i, else 0.
KeywordLen(s, i) ==
    IF WordAt(s, i, <<"u", "n", "d", "e", "r">>) THEN 5
    ELSE IF WordAt(s, i, <<"b", "e", "l", "o", "w">>) THEN 5
    ELSE IF WordAt(s, i, <<"<">>) THEN 1
    ELSE 0

\* Group 2 of /(under|below|<)\s*\$?(\d{1,6})/ tried at index i
\* (the empty string when the pattern does not match there).
PriceBehind(s, p) ==
    DigitRun(s, IF p <= Len(s) /\ s[p] = "$" THEN p + 1 ELSE p, MaxPriceDigits)

PriceAfterKeyword(s, i, len) ==
    IF len = 0 THEN <<>> ELSE PriceBehind(s, SkipBlanks(s, i + len))

PriceAt(s, i) == PriceAfterKeyword(s, i, KeywordLen(s, i))

\* lower.match(...): group 2 of the leftmost match, <<>> when there is none.
RECURSIVE PriceMatch(_, _)

PriceMatchTry(s, i, digits) ==
    IF digits # <<>> THEN digits ELSE PriceMatch(s, i + 1)

PriceMatch(s, i) ==
    IF i > Len(s) THEN <<>> ELSE PriceMatchTry(s, i, PriceAt(s, i))

\* Number(priceMatch[2]), -1 standing for null (no match).
PriceOf(digits) == IF digits = <<>> THEN -1 ELSE NumberOf(digits)

\* maxPrice: -1 stands for null (no price ceiling in the query).
maxPrice(lower) == PriceOf(PriceMatch(lower, 1))

\* lower.split(/\s+/).filter(Boolean)
RECURSIVE SplitWords(_, _)
SplitWords(s, cur) ==
    IF s = <<>> THEN (IF cur = <<>> THEN <<>> ELSE <<cur>>)
    ELSE IF Head(s) = " "
         THEN (IF cur = <<>> THEN <<>> ELSE <<cur>>) \o SplitWords(Tail(s), <<>>)
         ELSE SplitWords(Tail(s), Append(cur, Head(s)))

tokens(lower) == SplitWords(lower, <<>>)

\* features.join(' ')
RECURSIVE JoinBlank(_)
JoinBlank(fs) ==
    IF fs = <<>> THEN <<>>
    ELSE IF Len(fs) = 1 THEN fs[1]
    ELSE fs[1] \o <<" ">> \o JoinBlank(Tail(fs))

\* Whether token t counts for product p in the sort comparator.
TokenHits(p, t) ==
    \/ Includes(ToLowerCase(p.name), t)
    \/ Includes(p.category, t)
    \/ Includes(ToLowerCase(JoinBlank(p.features)), t)

\* sa / sb of the comparator: the number of tokens that count for p.
Score(p, toks) == Cardinality({k \in 1..Len(toks) : TokenHits(p, toks[k])})

\* filtered = products.filter(p => p.price <= maxPrice) when maxPrice != null
RECURSIVE FilterByPrice(_, _)
FilterByPrice(ps, max) ==
    IF ps = <<>> THEN <<>>
    ELSE IF Head(ps).price <= max
         THEN <<Head(ps)>> \o FilterByPrice(Tail(ps), max)
         ELSE FilterByPrice(Tail(ps), max)

FilterUnder(products, max) ==
    IF max # -1 THEN FilterByPrice(products, max) ELSE products

\* filtered without the price ceiling.
filteredNoCeiling(lower, products) == products

filtered(lower, products) == FilterUnder(products, maxPrice(lower))

\* Insert p into the sorted sequence s behind every element that does not
\* score lower (the comparator sb - sa moves p only ahead of lower scores).
RECURSIVE InsertByScore(_, _, _)
InsertByScore(s, p, toks) ==
    IF s = <<>> THEN <<p>>
    ELSE IF Score(p, toks) - Score(Head(s), toks) <= 0
         THEN <<Head(s)>> \o InsertByScore(Tail(s), p, toks)
         ELSE <<p>> \o s

\* filtered.sort((a, b) => sb - sa): Array.prototype.sort is stable.
RECURSIVE SortByScore(_, _)
SortByScore(ps, toks) ==
    IF ps = <<>> THEN <<>>
    ELSE InsertByScore(SortByScore(SubSeq(ps, 1, Len(ps) - 1), toks), ps[Len(ps)], toks)

\* Number of ids the fallback returns at most: filtered.slice(0, 3)
FallbackTop == 3

\* filtered.slice(0, 3).map(p => p.id)
TopIds(sorted) == [i \in 1..Min(FallbackTop, Len(sorted)) |-> sorted[i].id]

SortedFor(lower, products) == SortByScore(filtered(lower, products), tokens(lower))

\* fallbackIds of the handler for a query and a catalog.
fallbackIds(query, products) == TopIds(SortedFor(ToLowerCase(query), products))


(***************************************************************************)
(* The requests POST /api/recommend receives.                              *)
(***************************************************************************)
\* query missing from the body, or the empty string: falsy.
NoQuery == <<>>
MissingQuery == [query |-> NoQuery, products |-> PRODUCTS]
\* The bodies with a query: three queries on the catalog of the presentation
\* layer, and one on a shorter catalog.
Requests ==
    {[query |-> q, products |-> PRODUCTS] : q \in {QueryPhone, QueryEarbuds, QueryTablet}}
        \cup {[query |-> QueryPhone, products |-> SubSeq(PRODUCTS, 4, 6)]}

\* fallbackIds for every request of the model.
FallbackTable == [r \in Requests |-> fallbackIds(r.query, r.products)]

(***************************************************************************)
(* webSearch and the snippets.                                             *)
(***************************************************************************)
\* Largest number of organic_results a search reply carries.
MaxResults == 6

\* web.organic_results.slice(0, 5)
SnippetLimit == 5

ResultTitles == <<"r1", "r2", "r3", "r4", "r5", "r6", "r7", "r8">>

\* What the fetch of webSearch can end with (the timer apart).
SearchReplies ==
    {[kind |-> "results", n |-> k] : k \in 0..MaxResults} \cup
    {[kind |-> k, n |-> 0] : k \in {"noresults", "errorfield", "notjson", "http", "network"}}

SearchTimedOut == [kind |-> "timeout", n |-> 0]
\* No fetch was made.
SearchNotCalled == [kind |-> "none", n |-> 0]

NoWeb == [organic |-> -1, error |-> ""]
WebError(msg) == [organic |-> -1, error |-> msg]

\* webSearch that returns an empty result when the key is absent.
webSearchSilentNoKey(hasKey, outcome) ==
    IF ~hasKey THEN NoWeb
    ELSE CASE outcome.kind = "results" -> [organic |-> outcome.n, error |-> ""]
           [] outcome.kind = "noresults" -> NoWeb
           [] outcome.kind = "errorfield" -> WebError("Invalid API key")
           [] outcome.kind = "http" -> WebError("SerpApi HTTP 429: rate limited")
           [] outcome.kind = "notjson" -> WebError("SerpApi fetch error: SyntaxError")
           [] outcome.kind = "network" -> WebError("SerpApi fetch error: TypeError: fetch failed")
           [] outcome.kind = "timeout" -> WebError("SerpApi fetch error: Error: timeout")

\* webSearch(query): hasKey is !!SERPAPI_KEY, outcome how the race of fetch
\* and timer ended. organic is the length of organic_results (-1: absent),
\* error the error member ("": absent). Never throws.
webSearch(hasKey, outcome) ==
    IF ~hasKey THEN WebError("SERPAPI_KEY not configured")
    ELSE CASE outcome.kind = "results" -> [organic |-> outcome.n, error |-> ""]
           [] outcome.kind = "noresults" -> NoWeb
           [] outcome.kind = "errorfield" -> WebError("Invalid API key")
           [] outcome.kind = "http" -> WebError("SerpApi HTTP 429: rate limited")
           [] outcome.kind = "notjson" -> WebError("SerpApi fetch error: SyntaxError")
           [] outcome.kind = "network" -> WebError("SerpApi fetch error: TypeError: fetch failed")
           [] outcome.kind = "timeout" -> WebError("SerpApi fetch error: Error: timeout")

\* The i-th organic result: odd ones carry snippet and link, even ones only
\* the secondary description and source ("" stands for an absent member).
OrganicItem(i) ==
    IF i % 2 = 1
    THEN [title |-> ResultTitles[i], snippet |-> "snippet", description |-> "",
          link |-> "link", source |-> ""]
    ELSE [title |-> ResultTitles[i], snippet |-> "", description |-> "description",
          link |-> "", source |-> "source"]

ProjectItem(item) ==
    [title |-> item.title,
     snippet |-> IF item.snippet # "" THEN item.snippet ELSE item.description,
     link |-> IF item.link # "" THEN item.link ELSE item.source]

SearchErrorSnippet(msg) == [title |-> "search-error", snippet |-> msg]

\* BuildSnippets without the branch that surfaces web.error.
BuildSnippetsNoError(w) ==
    IF w.organic >= 0
    THEN [i \in 1..Min(SnippetLimit, w.organic) |-> ProjectItem(OrganicItem(i))]
    ELSE <<>>

\* "Build snippets (best-effort)"
BuildSnippets(w) ==
    IF w.organic >= 0
    THEN [i \in 1..Min(SnippetLimit, w.organic) |-> ProjectItem(OrganicItem(i))]
    ELSE IF w.error # "" THEN <<SearchErrorSnippet(w.error)>>
    ELSE <<>>

(***************************************************************************)
(* askGemini and the replies of the model provider.                        *)
(***************************************************************************)
\* Largest number of candidates (or outputs) a reply of the model carries.
MaxTexts == 3

Prose == <<"X", "W", "X">>
FencedRec1 == <<"X", "W", "F", "J", "W", "{", "R1", "}", "W", "F">>
EmptyObject == <<"{", "}">>
ReplyTexts == {Prose, FencedRec1, EmptyObject}

\* Shapes whose texts the handler looks for:
\*   candString  {candidates: [{content: "..."}]}
\*   candParts   {candidates: [{content: [{text: "..."}]}]}
\*   candObject  {candidates: [{content: {parts: [{text: "..."}]}}]}
\*   output      {output: [{text: "..."}]}
TextShapes == {"candString", "candParts", "candObject", "output"}

NoGem == [shape |-> "none", texts |-> <<>>]
\* {recommended_ids: ["p1"]}, {recommended_ids: "p1"} and null as the whole reply
OtherGems == {[shape |-> s, texts |-> <<>>] : s \in {"rec", "recString", "null"}}
\* {error: {message: "..."}}: the body of a provider error
ErrorGem == [shape |-> "error", texts |-> <<>>]

TextLists == UNION {[1..n -> ReplyTexts] : n \in 0..MaxTexts}
OkGems == {[shape |-> s, texts |-> ts] : s \in TextShapes, ts \in TextLists} \cup OtherGems

\* What the fetch of askGemini can end with (the timer apart): the HTTP
\* status (0: the fetch rejected), whether the body is JSON, and the body.
GeminiReplies ==
    {[status |-> 200, json |-> TRUE, gem |-> g] : g \in OkGems} \cup
    {[status |-> 400, json |-> TRUE, gem |-> ErrorGem],
     [status |-> 200, json |-> FALSE, gem |-> NoGem],
     [status |-> 502, json |-> FALSE, gem |-> NoGem],
     [status |-> 0, json |-> FALSE, gem |-> NoGem]}

GeminiTimedOut == [status |-> -1, json |-> FALSE, gem |-> NoGem]
\* No fetch was made.
GeminiNotCalled == [status |-> -2, json |-> FALSE, gem |-> NoGem]

Thrown(msg) == [thrown |-> TRUE, message |-> msg, gem |-> NoGem]
Returned(g) == [thrown |-> FALSE, message |-> "", gem |-> g]

\* askGemini(prompt): hasKey is !!GEMINI_KEY, outcome how the race of fetch
\* and timer ended. The status of the reply is never looked at.
askGemini(hasKey, outcome) ==
    IF ~hasKey THEN Thrown("Error: GEMINI_API_KEY not set in server environment.")
    ELSE IF outcome.status = -1 THEN Thrown("Error: Gemini call failed: timeout")
    ELSE IF outcome.status = 0 THEN Thrown("Error: Gemini call failed: fetch failed")
    ELSE IF ~outcome.json THEN Thrown("Error: Gemini call failed: Unexpected token")
    ELSE Returned(outcome.gem)

(***************************************************************************)
(* JSON.stringify(gem), as pieces.                                         *)
(***************************************************************************)
EscapePiece(c) ==
    CASE c = "R1" -> "r1"
      [] c = "R2" -> "r2"
      [] c = "RS" -> "rs"
      [] c = "Q" -> "q"
      [] OTHER -> c

\* A string value: the text between quotes, its own quotes escaped.
StringOf(t) == <<"Q">> \o [i \in 1..Len(t) |-> EscapePiece(t[i])] \o <<"Q">>

CandidateJSON(shape, t) ==
    CASE shape = "candString" -> <<"{", "KEY">> \o StringOf(t) \o <<"}">>
      [] shape = "output" -> <<"{", "KEY">> \o StringOf(t) \o <<"}">>
      [] shape = "candParts" ->
            <<"{", "KEY", "[", "{", "KEY">> \o StringOf(t) \o <<"}", "]", "}">>
      [] shape = "candObject" ->
            <<"{", "KEY", "{", "KEY", "[", "{", "KEY">> \o StringOf(t)
                \o <<"}", "]", "}", "}">>

RECURSIVE JoinComma(_)
JoinComma(ss) ==
    IF ss = <<>> THEN <<>>
    ELSE IF Len(ss) = 1 THEN ss[1]
    ELSE ss[1] \o <<",">> \o JoinComma(Tail(ss))

Stringify(g) ==
    CASE g.shape \in TextShapes ->
            <<"{", "KEY", "[">>
                \o JoinComma([i \in 1..Len(g.texts) |-> CandidateJSON(g.shape, g.texts[i])])
                \o <<"]", "}">>
      [] g.shape = "rec" -> <<"{", "R1", "}">>
      [] g.shape = "recString" -> <<"{", "RS", "}">>
      [] g.shape = "error" -> <<"{", "KEY", "{", "KEY", "Q", "X", "Q", "}", "}">>
      [] g.shape = "null" -> <<"Z">>

(***************************************************************************)
(* The handler of POST /api/recommend after askGemini returned.            *)
(***************************************************************************)
\* "Extract human-readable text from common Gemini response shapes", then
\* the whole reply stringified as the last candidate.
CollectTextCandidates(g) ==
    (IF g.shape \in {"candString", "candParts", "output"} THEN g.texts ELSE <<>>)
        \o <<Stringify(g)>>

\* for (const txt of textCandidates) { parsed = extract(txt); if (parsed) break; }
RECURSIVE ExtractionLoop(_, _, _)

LoopStep(tc, i, v) == IF Truthy(v) THEN v ELSE ExtractionLoop(tc, i + 1, v)

ExtractionLoop(tc, i, last) ==
    IF i > Len(tc) THEN last ELSE LoopStep(tc, i, extractJSONFromText(tc[i]))

\* Accepted with its Array.isArray test left out: any recommended_ids passes.
AcceptedAnyIds(p) == Truthy(p) /\ p.type = "object" /\ p.rid.kind # "absent"

\* parsed && Array.isArray(parsed.recommended_ids)
Accepted(p) == Truthy(p) /\ IsArrayIds(p)

\* textCandidates.slice(0, 3)
DebugLimit == 3

FallbackReason == "Fallback heuristic (Gemini did not return machine-readable JSON)."

ErrorResponse(status, msg) ==
    [status |-> status, error |-> msg, value |-> JNull, reason |-> "",
     sources |-> <<>>, debug |-> <<>>]

\* res.json(parsed)
ParsedResponse(p) ==
    [status |-> 200, error |-> "", value |-> p, reason |-> "", sources |-> <<>>,
     debug |-> <<>>]

\* FallbackResponse with the whole of textCandidates as debug.
FallbackResponseAllDebug(r, snips, tc) ==
    [status |-> 200, error |-> "",
     value |-> JObject(ArrayIds(FallbackTable[r])),
     reason |-> FallbackReason,
     sources |-> snips,
     debug |-> tc]

\* The payload of the fallback heuristic.
FallbackResponse(r, snips, tc) ==
    [status |-> 200, error |-> "",
     value |-> JObject(ArrayIds(FallbackTable[r])),
     reason |-> FallbackReason,
     sources |-> snips,
     debug |-> SubSeq(tc, 1, Min(DebugLimit, Len(tc)))]

\* The response to a request whose model call returned gem g.
RecommendResponse(r, snips, tc, p) ==
    IF Accepted(p) THEN ParsedResponse(p) ELSE FallbackResponse(r, snips, tc)

(***************************************************************************)
(* State machine of one request. A call is the fetch and the timer that    *)
(* timeoutPromise races: winner says which settled the race, the loser     *)
(* still happens later and changes nothing.                                *)
(***************************************************************************)
NoCall == [fetch |-> "none", timer |-> "off", winner |-> "none", outcome |-> "none",
           status |-> -1]
PendingCall == [fetch |-> "pending", timer |-> "armed", winner |-> "none",
                outcome |-> "none", status |-> -1]

Respond(r) ==
    /\ responses' = Append(responses, r)
    /\ pc' = "responded"

\* The handler from the return of webSearch to its next await.
AfterSearch(w) ==
    /\ web' = w
    /\ snippets' = BuildSnippets(w)
    /\ IF ~conf.gemini
       THEN /\ Respond(ErrorResponse(500, askGemini(conf.gemini, GeminiNotCalled).message))
            /\ UNCHANGED <<geminiCall, fetches>>
       ELSE /\ geminiCall' = PendingCall
            /\ fetches' = [fetches EXCEPT !.gemini = @ + 1]
            /\ pc' = "awaitGemini"
            /\ UNCHANGED responses

\* The handler from the return (or throw) of askGemini to its end.
AfterGemini(a) ==
    IF a.thrown
    THEN /\ Respond(ErrorResponse(500, a.message))
         /\ UNCHANGED <<gem, textCandidates, parsed>>
    ELSE /\ gem' = a.gem
         /\ textCandidates' = CollectTextCandidates(gem')
         /\ parsed' = ExtractionLoop(textCandidates', 1, JNull)
         /\ Respond(RecommendResponse(req, snippets, textCandidates', parsed'))

HInit(c) ==
    /\ conf = c
    /\ pc = "listening"
    /\ req = [query |-> NoQuery, products |-> <<>>]
    /\ searchCall = NoCall
    /\ geminiCall = NoCall
    /\ web = NoWeb
    /\ snippets = <<>>
    /\ gem = NoGem
    /\ textCandidates = <<>>
    /\ parsed = JNull
    /\ responses = <<>>
    /\ fetches = [search |-> 0, gemini |-> 0]

\* A request arrives; the handler runs to its first pending fetch.
ReceiveRequest(r) ==
    /\ pc = "listening"
    /\ req' = r
    /\ UNCHANGED <<conf, gem, textCandidates, parsed, xvars>>
    /\ IF r.query = NoQuery
       THEN /\ Respond(ErrorResponse(400, "missing query"))
            /\ UNCHANGED <<searchCall, geminiCall, web, snippets, fetches>>
       ELSE IF ~conf.serp
       THEN /\ AfterSearch(webSearch(conf.serp, SearchNotCalled))
            /\ UNCHANGED searchCall
       ELSE /\ searchCall' = PendingCall
            /\ fetches' = [fetches EXCEPT !.search = @ + 1]
            /\ pc' = "awaitSearch"
            /\ UNCHANGED <<geminiCall, web, snippets, responses>>

\* The fetch of webSearch settles before its timer.
SearchReply(reply) ==
    /\ pc = "awaitSearch"
    /\ searchCall.fetch = "pending" /\ searchCall.winner = "none"
    /\ searchCall' = [searchCall EXCEPT !.fetch = "settled", !.winner = "fetch",
                                        !.outcome = reply.kind]
    /\ AfterSearch(webSearch(conf.serp, reply))
    /\ UNCHANGED <<conf, req, gem, textCandidates, parsed, xvars>>

\* The 8000 ms timer of webSearch fires before its fetch settles.
SearchTimeout ==
    /\ pc = "awaitSearch"
    /\ searchCall.timer = "armed" /\ searchCall.winner = "none"
    /\ searchCall' = [searchCall EXCEPT !.timer = "fired", !.winner = "timer",
                                        !.outcome = "timeout"]
    /\ AfterSearch(webSearch(conf.serp, SearchTimedOut))
    /\ UNCHANGED <<conf, req, gem, textCandidates, parsed, xvars>>

\* The fetch of webSearch settles after the timer fired: the race is over
\* and the reply is dropped.
SearchLateReply ==
    /\ searchCall.winner = "timer"
    /\ searchCall.fetch = "pending"
    /\ searchCall' = [searchCall EXCEPT !.fetch = "settled"]
    /\ UNCHANGED <<conf, pc, req, geminiCall, web, snippets, gem, textCandidates,
                   parsed, responses, fetches, xvars>>

\* The timer of webSearch fires after the fetch settled: nobody listens.
SearchLateTimer ==
    /\ searchCall.winner = "fetch"
    /\ searchCall.timer = "armed"
    /\ searchCall' = [searchCall EXCEPT !.timer = "fired"]
    /\ UNCHANGED <<conf, pc, req, geminiCall, web, snippets, gem, textCandidates,
                   parsed, responses, fetches, xvars>>

\* The fetch of askGemini settles before its timer.
GeminiReply(reply) ==
    /\ pc = "awaitGemini"
    /\ geminiCall.fetch = "pending" /\ geminiCall.winner = "none"
    /\ geminiCall' = [geminiCall EXCEPT !.fetch = "settled", !.winner = "fetch",
                                        !.outcome = IF reply.json THEN "json" ELSE "failed",
                                        !.status = reply.status]
    /\ AfterGemini(askGemini(conf.gemini, reply))
    /\ UNCHANGED <<conf, req, searchCall, web, snippets, fetches, xvars>>

\* The 10000 ms timer of askGemini fires before its fetch settles.
GeminiTimeout ==
    /\ pc = "awaitGemini"
    /\ geminiCall.timer = "armed" /\ geminiCall.winner = "none"
    /\ geminiCall' = [geminiCall EXCEPT !.timer = "fired", !.winner = "timer",
                                        !.outcome = "timeout"]
    /\ AfterGemini(askGemini(conf.gemini, GeminiTimedOut))
    /\ UNCHANGED <<conf, req, searchCall, web, snippets, fetches, xvars>>

\* GeminiLateReply with the late reply still handed to the handler.
GeminiLateReplyHandled ==
    /\ geminiCall.winner = "timer"
    /\ geminiCall.fetch = "pending"
    /\ geminiCall' = [geminiCall EXCEPT !.fetch = "settled"]
    /\ \E reply \in GeminiReplies : AfterGemini(askGemini(conf.gemini, reply))
    /\ UNCHANGED <<conf, req, searchCall, web, snippets, fetches, xvars>>

\* The fetch of askGemini settles after the timer fired: the race is over
\* and the reply is dropped.
GeminiLateReply ==
    /\ geminiCall.winner = "timer"
    /\ geminiCall.fetch = "pending"
    /\ geminiCall' = [geminiCall EXCEPT !.fetch = "settled"]
    /\ UNCHANGED <<conf, pc, req, searchCall, web, snippets, gem, textCandidates,
                   parsed, responses, fetches, xvars>>

\* The timer of askGemini fires after the fetch settled: nobody listens.
GeminiLateTimer ==
    /\ geminiCall.winner = "fetch"
    /\ geminiCall.timer = "armed"
    /\ geminiCall' = [geminiCall EXCEPT !.timer = "fired"]
    /\ UNCHANGED <<conf, pc, req, searchCall, web, snippets, gem, textCandidates,
                   parsed, responses, fetches, xvars>>

(***************************************************************************)
(* Extractor harness: a text is built piece by piece and handed to         *)
(* extractJSONFromText.                                                    *)
(***************************************************************************)
Object1 == <<"{", "R1", "}">>
Object2 == <<"{", "R2", "}">>
FencedTrue == <<"F", "T", "F">>
FencedObject1 == <<"F", "J", "W">> \o Object1 \o <<"W", "F">>

Pieces == { <<"F">>, <<"J">>, <<"W">>, <<"X">>, <<"T">>, <<"{">>, <<"}">>,
            Object1, Object2, FencedTrue, FencedObject1 }

XInit ==
    /\ xtext = <<>>
    /\ xcount = 0
    /\ xphase = "input"
    /\ xres = JNull

AppendPiece(p) ==
    /\ xphase = "input"
    /\ xcount < MaxPieces
    /\ xtext' = xtext \o p
    /\ xcount' = xcount + 1
    /\ UNCHANGED <<xphase, xres, hvars>>

Extract ==
    /\ xphase = "input"
    /\ xres' = extractJSONFromText(xtext)
    /\ xphase' = "done"
    /\ UNCHANGED <<xtext, xcount, hvars>>

Init ==
    /\ \E c \in [serp : BOOLEAN, gemini : BOOLEAN] : HInit(c)
    /\ XInit

Next ==
    \/ \E r \in Requests \cup {MissingQuery} : ReceiveRequest(r)
    \/ \E reply \in SearchReplies : SearchReply(reply)
    \/ SearchTimeout
    \/ SearchLateReply
    \/ SearchLateTimer
    \/ \E reply \in GeminiReplies : GeminiReply(reply)
    \/ GeminiTimeout
    \/ GeminiLateReply
    \/ GeminiLateTimer

Spec == Init /\ [][Next]_vars

InitExtract ==
    /\ HInit([serp |-> TRUE, gemini |-> TRUE])
    /\ XInit

NextExtract ==
    \/ \E p \in Pieces : AppendPiece(p)
    \/ Extract

SpecExtract == InitExtract /\ [][NextExtract]_vars

(***************************************************************************)
(* Properties.                                                             *)
(***************************************************************************)
Rec1 == JObject(ArrayIds(<<"p1">>))

\* The fenced blocks of a text: its fences paired from left to right.
FenceIndexes(text) ==
    SelectSeq([i \in 1..Len(text) |-> i], LAMBDA i : text[i] = "F")
BlockCount(text) == Len(FenceIndexes(text)) \div 2
BlockBody(text, k) ==
    LET open == FenceIndexes(text)[2 * k - 1]
        close == FenceIndexes(text)[2 * k]
        start == IF text[open + 1] = "J" THEN open + 2 ELSE open + 1
    IN Trim(Slice(text, start, close - 1))
BlockValue(text, k) == JSONparse(BlockBody(text, k))
BlockParses(text, k) == BlockValue(text, k) # SyntaxError
FirstParsingBlock(text, k) ==
    /\ BlockParses(text, k)
    /\ \A j \in 1..(k - 1) : ~BlockParses(text, j)
NoBraces(text) == IndexFrom(text, "{", 1) = 0 /\ IndexFrom(text, "}", 1) = 0

TheResponse == responses[1]
Responded == pc = "responded" /\ Len(responses) = 1
IsFallback(r) == r.status = 200 /\ r.reason = FallbackReason
ModelReturned == geminiCall.winner = "fetch" /\ geminiCall.outcome = "json"
ModelFailed ==
    \/ ~conf.gemini
    \/ geminiCall.winner = "timer"
    \/ geminiCall.winner = "fetch" /\ geminiCall.outcome = "failed"

\* C1: every response with a success payload, from the extracted JSON or
\* from the fallback heuristic, carries recommended_ids as an array.
C1_SuccessIdsIsArray ==
    \A i \in 1..Len(responses) :
        responses[i].status = 200 =>
            /\ responses[i].value.type = "object"
            /\ responses[i].value.rid.kind = "array"

\* The model replied {recommended_ids: "p1"} and the request succeeded.
C1_Witness ==
    /\ Responded
    /\ gem.shape = "recString"
    /\ TheResponse.status = 200

\* C2 as claimed: a fenced block (fences paired left to right) holding an
\* object with recommended_ids as an array is what extractJSONFromText
\* returns, whatever other blocks the text holds.
C2_AnyFencedObjectReturned ==
    xphase = "done" =>
        \A k \in 1..BlockCount(xtext) :
            IsArrayIds(BlockValue(xtext, k)) => xres = BlockValue(xtext, k)

\* C2 amended: when the first fenced block whose trimmed body is valid JSON
\* is an object with recommended_ids as an array, extractJSONFromText
\* returns that object, whatever unparsable blocks precede it and whatever
\* blocks, stray fences and unfenced JSON the text holds besides.
C2_FirstParsingFencedObjectReturned ==
    xphase = "done" =>
        \A k \in 1..BlockCount(xtext) :
            (FirstParsingBlock(xtext, k) /\ IsArrayIds(BlockValue(xtext, k)))
                => xres = BlockValue(xtext, k)

\* An unfenced object with other ids stands in the text and the fenced
\* object is returned.
C2_Witness ==
    /\ xphase = "done"
    /\ IndexFrom(xtext, "R2", 1) # 0
    /\ \E k \in 1..BlockCount(xtext) :
          /\ FirstParsingBlock(xtext, k)
          /\ BlockValue(xtext, k) = Rec1
          /\ IndexFrom(xtext, "R2", 1) < FenceIndexes(xtext)[2 * k - 1]
    /\ xres = Rec1

\* C3 as claimed: a text without "{" and "}" gives null, fenced blocks with
\* a brace-less JSON body included.
C3_NoBracesGivesNull ==
    (xphase = "done" /\ NoBraces(xtext)) => xres = JNull

\* C3 amended: a text without "{" and "}" gives null unless the trimmed
\* body of one of its fenced blocks is valid JSON, and then it gives the
\* value of the first such block.
C3_NoBracesGivesNullOrFencedValue ==
    (xphase = "done" /\ NoBraces(xtext)) =>
        /\ (\A k \in 1..BlockCount(xtext) : ~BlockParses(xtext, k)) => xres = JNull
        /\ \A k \in 1..BlockCount(xtext) :
              FirstParsingBlock(xtext, k) => xres = BlockValue(xtext, k)

\* A text without braces that holds fences and the literal true, none of
\* its blocks valid JSON: null.
C3_Witness ==
    /\ xphase = "done"
    /\ NoBraces(xtext)
    /\ IndexFrom(xtext, "F", 1) # 0
    /\ IndexFrom(xtext, "T", 1) # 0
    /\ \A k \in 1..BlockCount(xtext) : ~BlockParses(xtext, k)
    /\ xres = JNull

\* The fragments of textCandidates whose extracted value is accepted.
AcceptedFragments ==
    {i \in 1..Len(textCandidates) : Accepted(extractJSONFromText(textCandidates[i]))}
EarliestAccepted == CHOOSE i \in AcceptedFragments : \A j \in AcceptedFragments : i <= j

\* C4 as claimed: when some fragment yields an accepted value the response
\* is the accepted value of the earliest such fragment, and the fallback
\* answers only when no fragment yields one.
C4_EarliestAcceptedFragmentWins ==
    (Responded /\ ModelReturned) =>
        IF AcceptedFragments # {}
        THEN TheResponse = ParsedResponse(extractJSONFromText(textCandidates[EarliestAccepted]))
        ELSE IsFallback(TheResponse)

\* C5: a request with a query whose model call returned a reply of which
\* no fragment yields an accepted value is answered with the fallback
\* payload: the ids of the heuristic, the fixed reason, the snippets of
\* this request as sources and the first min(3, n) fragments as debug.
C5_FallbackPayload ==
    (Responded /\ req.query # NoQuery /\ ModelReturned /\ AcceptedFragments = {}) =>
        /\ TheResponse.status = 200
        /\ TheResponse.error = ""
        /\ TheResponse.value = JObject(ArrayIds(FallbackTable[req]))
        /\ TheResponse.reason = FallbackReason
        /\ TheResponse.sources = snippets
        /\ Len(textCandidates) >= 1
        /\ Len(TheResponse.debug) = Min(3, Len(textCandidates))
        /\ Len(TheResponse.debug) >= 1
        /\ \A i \in 1..Len(TheResponse.debug) : TheResponse.debug[i] = textCandidates[i]

\* The fallback answered a reply of more than three fragments.
C5_Witness ==
    /\ Responded /\ req.query # NoQuery /\ ModelReturned /\ AcceptedFragments = {}
    /\ Len(textCandidates) > 3
    /\ Len(TheResponse.debug) = 3

SearchFailed ==
    \/ searchCall.winner = "timer"
    \/ searchCall.winner = "fetch" /\ searchCall.outcome \in {"http", "network"}

\* C6: a failed search (non-2xx, network failure, timeout) leaves web an
\* {error} value and snippets the one synthetic snippet, the model call is
\* made all the same and the outcome of the request is that of the model
\* call and the extraction; a successful search gives at most 5 snippets.
C6_SearchFailureNotFatal ==
    /\ SearchFailed =>
          /\ web.error # "" /\ web.organic = -1
          /\ snippets = <<[title |-> "search-error", snippet |-> web.error]>>
          /\ conf.gemini => (fetches.gemini = 1 /\ geminiCall.fetch # "none")
          /\ pc = "responded" =>
                /\ Len(responses) = 1
                /\ TheResponse.status = 500 <=> ModelFailed
                /\ ~ModelFailed =>
                      TheResponse = RecommendResponse(req, snippets, textCandidates, parsed)
    /\ (searchCall.winner = "fetch" /\ searchCall.outcome = "results") =>
          /\ Len(snippets) <= 5
          /\ Len(snippets) = Min(5, web.organic)

\* The search timed out and the request was answered by the fallback with
\* the synthetic snippet as its source.
C6_Witness ==
    /\ searchCall.winner = "timer"
    /\ Responded
    /\ IsFallback(TheResponse)
    /\ Len(TheResponse.sources) = 1
    /\ TheResponse.sources[1].title = "search-error"

NoKeySnippet == [title |-> "search-error", snippet |-> "SERPAPI_KEY not configured"]

\* C7 as claimed: without the search key the snippet list is empty.
C7_NoKeyEmptySnippets ==
    (~conf.serp /\ pc # "listening" /\ req.query # NoQuery) => snippets = <<>>

\* C7 amended: without the search key no search is made, the request does
\* not fail for it, and the snippet list used for the prompt and for the
\* sources of the fallback is the one synthetic snippet
\* {title: "search-error", snippet: "SERPAPI_KEY not configured"}.
C7_NoKeySyntheticSnippet ==
    (~conf.serp /\ pc # "listening" /\ req.query # NoQuery) =>
        /\ snippets = <<NoKeySnippet>>
        /\ fetches.search = 0
        /\ searchCall.fetch = "none"
        /\ pc = "responded" =>
              /\ TheResponse.status = 500 <=> ModelFailed
              /\ IsFallback(TheResponse) => TheResponse.sources = <<NoKeySnippet>>

\* Without the search key the fallback answered, the synthetic snippet its
\* only source.
C7_Witness ==
    /\ ~conf.serp
    /\ Responded
    /\ IsFallback(TheResponse)
    /\ TheResponse.sources = <<NoKeySnippet>>

ModelHardFailure ==
    \/ ~conf.gemini /\ pc = "responded" /\ req.query # NoQuery
    \/ geminiCall.winner = "timer"

\* C8: when the model key is absent or the timer of the model call fires
\* first, the request is answered exactly once, with status 500 and an
\* {error} body; extraction and fallback never ran, the call was issued at
\* most once, and a reply that arrives later changes nothing.
C8_ModelFailureFatalAndFinal ==
    ModelHardFailure =>
        /\ pc = "responded"
        /\ Len(responses) = 1
        /\ TheResponse.status = 500
        /\ TheResponse.error # ""
        /\ TheResponse.value = JNull /\ TheResponse.reason = ""
        /\ gem = NoGem /\ textCandidates = <<>> /\ parsed = JNull
        /\ fetches.gemini = (IF conf.gemini THEN 1 ELSE 0)

\* The timer fired first and the reply of the provider arrived afterwards.
C8_Witness ==
    /\ geminiCall.winner = "timer"
    /\ geminiCall.fetch = "settled"
    /\ Len(responses) = 1
    /\ TheResponse.status = 500

\* C9 as claimed: a reply of the model provider with a non-2xx status is
\* answered with a 5xx status and an {error} body.
C9_ProviderErrorSurfaced ==
    (Responded /\ geminiCall.winner = "fetch" /\ geminiCall.status >= 400) =>
        /\ TheResponse.status >= 500
        /\ TheResponse.error # ""

PhoneRequest == [query |-> QueryPhone, products |-> PRODUCTS]
PhoneScores == [i \in 1..Len(PRODUCTS) |-> Score(PRODUCTS[i], tokens(ToLowerCase(QueryPhone)))]
CatalogIndex(id) == CHOOSE i \in 1..Len(PRODUCTS) : PRODUCTS[i].id = id
PhoneCategory == <<"p", "h", "o", "n", "e">>
PhoneFallbackIds == TheResponse.value.rid.items

\* C10 as claimed: for "I want a phone under $500" and the six-item catalog
\* the ids of the fallback are all phone-category items.
C10_TopThreeAllPhones ==
    (Responded /\ req = PhoneRequest /\ IsFallback(TheResponse)) =>
        \A k \in 1..Len(PhoneFallbackIds) :
            PRODUCTS[CatalogIndex(PhoneFallbackIds[k])].category = PhoneCategory

\* C10 amended: for that query and catalog the fallback keeps the products
\* with price <= 500 (never p2 nor p4), orders them by descending count of
\* query tokens found in name, category or joined features, ties in catalog
\* order, and returns the top 3 ids: p1, p3, p5, the two phones within the
\* ceiling and then the tablet p5.
C10_TopThreeUnderCeiling ==
    (Responded /\ req = PhoneRequest /\ IsFallback(TheResponse)) =>
        /\ PhoneFallbackIds = <<"p1", "p3", "p5">>
        /\ \A k \in 1..Len(PhoneFallbackIds) :
              PRODUCTS[CatalogIndex(PhoneFallbackIds[k])].price <= 500
        /\ \A k \in 1..(Len(PhoneFallbackIds) - 1) :
              LET a == CatalogIndex(PhoneFallbackIds[k])
                  b == CatalogIndex(PhoneFallbackIds[k + 1])
              IN \/ PhoneScores[a] > PhoneScores[b]
                 \/ PhoneScores[a] = PhoneScores[b] /\ a < b
        /\ \A i \in 1..Len(PRODUCTS) :
              (PRODUCTS[i].price <= 500
                  /\ \A k \in 1..Len(PhoneFallbackIds) : PhoneFallbackIds[k] # PRODUCTS[i].id)
              => LET last == CatalogIndex(PhoneFallbackIds[Len(PhoneFallbackIds)])
                 IN \/ PhoneScores[i] < PhoneScores[last]
                    \/ PhoneScores[i] = PhoneScores[last] /\ last < i

\* The fallback answered the phone query on the six-item catalog.
C10_Witness ==
    /\ Responded /\ req = PhoneRequest /\ IsFallback(TheResponse)
    /\ Len(PhoneFallbackIds) = 3


====
